---- MODULE Spec2Model ----
(***************************************************************************)
(* A model of the sms-simulation pipeline: SMSProducer.fill_queue, the     *)
(* SMSSender.service_queue processes, the aggregation loop of              *)
(* Simulator.run with SimulationStatistics.update running in an executor   *)
(* thread, and the Simulator._progress_monitor task.                       *)
(*                                                                         *)
(* Numbers.  Service times and config values are whole numbers of seconds. *)
(* A Python float is modelled as a binary floating-point number with       *)
(* MantissaBits significant bits and round-to-nearest-even (a double has   *)
(* 53): it is written as a reduced fraction <<n, d>>, and every arithmetic *)
(* operation of the code rounds its exact result (Round).  Failure rates   *)
(* and the uniform draw are in percent.                                    *)
(***************************************************************************)
EXTENDS Integers, Sequences, FiniteSets, TLC

\* ------------------------------------------------------------------ bounds
MaxSenders == 2
MaxMessages == 3
MantissaBits == 8

\* ------------------------------------------------------- float arithmetic
RECURSIVE Pow2(_)
Pow2(k) == IF k <= 0 THEN 1 ELSE 2 * Pow2(k - 1)

RECURSIVE Gcd(_, _)
Gcd(a, b) == IF b = 0 THEN a ELSE Gcd(b, a % b)

Abs(x) == IF x < 0 THEN -x ELSE x

\* the fraction n/d in lowest terms, d > 0
Frac(n, d) == LET g == Gcd(Abs(n), d) IN <<n \div g, d \div g>>

\* n/d (n >= 0, d > 0) rounded to the nearest integer, ties to even
RoundHalfEven(n, d) ==
    LET q == n \div d
        r == n % d
    IN  IF 2 * r < d THEN q
        ELSE IF 2 * r > d THEN q + 1
        ELSE IF q % 2 = 0 THEN q ELSE q + 1

\* the binary exponent k with 2^(MantissaBits-1) <= (n/d) * 2^k < 2^MantissaBits
\* (every value of the model is below 2^(MantissaBits-1), so k >= 1)
Exponent(n, d) ==
    CHOOSE k \in 0 .. 2 * MantissaBits :
        /\ Pow2(MantissaBits - 1) * d <= n * Pow2(k)
        /\ n * Pow2(k) < Pow2(MantissaBits) * d

\* the float nearest to the non-negative real n/d
Round(n, d) ==
    IF n = 0 THEN <<0, 1>>
    ELSE LET k == Exponent(n, d)
         IN  Frac(RoundHalfEven(n * Pow2(k), d), Pow2(k))

Float(i) == Round(i, 1)
FloatMul(a, b) == Round(a[1] * b[1], a[2] * b[2])
FloatAdd(a, b) == Round(a[1] * b[2] + b[1] * a[2], a[2] * b[2])

\* ------------------------------------------------------------- data model
\* SenderConfig values the senders of a run are drawn from (both pass
\* SenderConfig.validate): one sender that always delivers, in 1 s, and one
\* that always fails, in 2 s
SenderConfigs ==
    { [failure_rate |-> 0,   mean_send_time |-> 1, sdev_send_time |-> 0],
      [failure_rate |-> 100, mean_send_time |-> 2, sdev_send_time |-> 0] }

\* values of the standard normal sample behind random.gauss, and of random.random (percent)
NormalSamples == {-4, 0, 4}
UniformSamples == {0, 50, 99}

NoMessage == [phone |-> 0]

\* the n-th random message: only its identity is kept
SMSMessage(n) == [phone |-> n]

\* mutant: range(messages + 1)
generator_one_more(n) == [k \in 1 .. n + 1 |-> [phone |-> k]]

\* SMSMessage.generator(messages): (random_message() for _ in range(messages))
generator(n) == [k \in 1 .. n |-> SMSMessage(k)]

ServicedMessage(delivered, service_time_seconds, message) ==
    [delivered |-> delivered, service_time_seconds |-> service_time_seconds,
     message |-> message]

\* ------------------------------------------------------ SimulationStatistics
new(total_messages) ==
    [messages_sent |-> 0, messages_failed |-> 0,
     average_seconds_per_message |-> Float(0), start |-> 0,
     total_messages |-> total_messages]

messages_processed(s) == s.messages_sent + s.messages_failed

\* mutant: the loop ends one message short
complete_one_short(s, total) == s.messages_sent + s.messages_failed + 1 >= total

\* the completion test of Simulator.run
complete(s, total) == messages_processed(s) = total

\* mutant: no else, a failed message is counted as sent too
update_count_both(s, serviced) ==
    IF serviced.delivered
    THEN [s EXCEPT !.messages_sent = @ + 1]
    ELSE [s EXCEPT !.messages_sent = @ + 1, !.messages_failed = @ + 1]

\* update, first statement: the counter
update_count(s, serviced) ==
    IF serviced.delivered
    THEN [s EXCEPT !.messages_sent = @ + 1]
    ELSE [s EXCEPT !.messages_failed = @ + 1]

\* update, second statement: average *= (processed - 1) / processed
update_scale(s) ==
    [s EXCEPT !.average_seconds_per_message =
        FloatMul(@, Round(messages_processed(s) - 1, messages_processed(s)))]

\* mutant: the service time is added undivided
update_add_undivided(s, serviced) ==
    [s EXCEPT !.average_seconds_per_message =
        FloatAdd(@, Float(serviced.service_time_seconds))]

\* update, third statement: average += service_time / processed
update_add(s, serviced) ==
    [s EXCEPT !.average_seconds_per_message =
        FloatAdd(@, Round(serviced.service_time_seconds, messages_processed(s)))]

update(s, serviced) == update_add(update_scale(update_count(s, serviced)), serviced)

\* int(x) of a float x >= 0
Trunc(x) == x[1] \div x[2]

bar_width == 28

\* render, the bar: the lengths of its three strings (total_messages > 0): space and
\* delivered are truncated products, failed is what is left of bar_width; a
\* string repeated zero or fewer times is empty
bar(s) ==
    LET space == IF messages_processed(s) >= s.total_messages THEN 0
                 ELSE Trunc(FloatMul(Float(28),
                                     Round(s.total_messages - messages_processed(s),
                                           s.total_messages)))
        delivered == Trunc(FloatMul(Round(s.messages_sent, s.total_messages),
                                    Float(bar_width)))
    IN  [delivered |-> delivered,
         failed    |-> IF bar_width - delivered - space < 0 THEN 0
                       ELSE bar_width - delivered - space,
         space     |-> space]

\* render: the division by total_messages raises ZeroDivisionError when it is 0;
\* otherwise the text shows the counters and the average as they are read
\* (and the bar, bar(s), which these counters and total_messages determine)
render(s) ==
    IF s.total_messages = 0
    THEN [raised |-> TRUE, sent |-> 0, failed |-> 0, avg |-> Float(0)]
    ELSE [raised |-> FALSE, sent |-> s.messages_sent, failed |-> s.messages_failed,
          avg |-> s.average_seconds_per_message]

NothingShown == [raised |-> FALSE, sent |-> -1, failed |-> -1, avg |-> Float(0)]

\* ------------------------------------------------------------------ SMSSender
Max(a, b) == IF a >= b THEN a ELSE b

\* random.gauss(mu, sigma) for the standard normal sample z
gauss(mu, sigma, z) == mu + z * sigma

\* mutant: the lower bound is not raised to 0.0
service_time_unfloored(cfg, z) ==
    LET upper_bound == cfg.mean_send_time + 3 * cfg.sdev_send_time
        lower_bound == cfg.mean_send_time - 3 * cfg.sdev_send_time
        sample == gauss(cfg.mean_send_time, cfg.sdev_send_time, z)
        raised == IF sample < lower_bound THEN lower_bound ELSE sample
    IN  IF raised > upper_bound THEN upper_bound ELSE raised

service_time(cfg, z) ==
    LET upper_bound == cfg.mean_send_time + 3 * cfg.sdev_send_time
        lower_bound == Max(cfg.mean_send_time - 3 * cfg.sdev_send_time, 0)
        sample == gauss(cfg.mean_send_time, cfg.sdev_send_time, z)
        raised == IF sample < lower_bound THEN lower_bound ELSE sample
    IN  IF raised > upper_bound THEN upper_bound ELSE raised

\* mutant: the draw is compared with <=
process_message_le(cfg, message, z, u) ==
    ServicedMessage(~(u <= cfg.failure_rate), service_time(cfg, z), message)

process_message(cfg, message, z, u) ==
    ServicedMessage(~(u < cfg.failure_rate), service_time(cfg, z), message)

\* ------------------------------------------------------------------ queues
\* mutant: the test of the queue's room is negated
CanPut_negated(q, maxsize) == ~(maxsize <= 0 \/ Len(q) < maxsize)

\* multiprocessing.Queue(maxsize): maxsize <= 0 means no limit
CanPut(q, maxsize) == maxsize <= 0 \/ Len(q) < maxsize

\* ------------------------------------------------------------------- state
VARIABLES
    senders,          \* config.senders: the SenderConfig of each SMSSender
    messages,         \* SMSProducer.messages (config.messages)
    producer_queue,   \* SMSProducer.queue == SMSSender.incoming_messages
    result_queue,     \* SMSSender.serviced_messages == Simulator.result_queue
    producer_pc,      \* the producer process: "new", "fill", "done", "killed"
    produced,         \* messages SMSMessage.generator has yielded so far
    sender_pc,        \* each sender process: "new", "get", "process", "put", "killed"
    sender_msg,       \* the SMSMessage / ServicedMessage a sender holds
    stats,            \* Simulator.stats
    running,          \* Simulator.running
    run_pc,           \* Simulator.run and the executor call it awaits
    run_msg,          \* msg of Simulator.run
    monitor_pc,       \* the _progress_monitor task
    shown,            \* what the last render echoed
    applied,          \* history: the ServicedMessages whose update has returned
    serviced,         \* history: ServicedMessages made by process_message, per message
    sample            \* inputs and result of one _service_time call

vars == <<senders, messages, producer_queue, result_queue, producer_pc, produced,
          sender_pc, sender_msg, stats, running, run_pc, run_msg, monitor_pc,
          shown, applied, serviced, sample>>

Senders == DOMAIN senders
max_q_size == 2 * Len(senders)
NoSample == [cfg |-> [failure_rate |-> 0, mean_send_time |-> 0, sdev_send_time |-> 0],
             z |-> 0, returned |-> FALSE, result |-> 0]

\* Simulator.from_config for a config SimulationConfig.validate accepts
from_config ==
    /\ senders \in UNION {[1 .. n -> SenderConfigs] : n \in 0 .. MaxSenders}
    /\ messages \in 0 .. MaxMessages
    /\ producer_queue = <<>>
    /\ result_queue = <<>>
    /\ producer_pc = "new"
    /\ produced = 0
    /\ sender_pc = [i \in DOMAIN senders |-> "new"]
    /\ sender_msg = [i \in DOMAIN senders |-> NoMessage]
    /\ stats = new(messages)
    /\ running = FALSE
    /\ run_pc = "new"
    /\ run_msg = NoMessage
    /\ monitor_pc = "new"
    /\ shown = NothingShown
    /\ applied = <<>>
    /\ serviced = [m \in 1 .. messages |-> 0]

Init == from_config /\ sample = NoSample

\* ------------------------------------------------------------ Simulator.run
\* run up to its first await: create the monitor task, running = True,
\* engine.start(), and the first result_queue.get handed to the executor
run_start ==
    /\ run_pc = "new"
    /\ monitor_pc' = "created"
    /\ running' = TRUE
    /\ sender_pc' = [i \in Senders |-> "get"]
    /\ producer_pc' = "fill"
    /\ run_pc' = "get"
    /\ UNCHANGED <<senders, messages, producer_queue, result_queue, produced,
                   sender_msg, stats, run_msg, shown, applied, serviced, sample>>

\* a new task runs before any awaiting coroutine is resumed
LoopResumesRun == monitor_pc # "created"

\* result_queue.get(True, 0.5), in the executor thread, takes a message
run_get ==
    /\ run_pc = "get"
    /\ result_queue # <<>>
    /\ run_msg' = Head(result_queue)
    /\ result_queue' = Tail(result_queue)
    /\ run_pc' = "update_count"
    /\ UNCHANGED <<senders, messages, producer_queue, producer_pc, produced,
                   sender_pc, sender_msg, stats, running, monitor_pc, shown,
                   applied, serviced, sample>>

\* mutant: Empty is not caught and ends run
run_get_empty_raises ==
    /\ run_pc = "get"
    /\ result_queue = <<>>
    /\ run_pc' = "raised"
    /\ UNCHANGED <<senders, messages, producer_queue, result_queue, producer_pc,
                   produced, sender_pc, sender_msg, stats, running, run_msg,
                   monitor_pc, shown, applied, serviced, sample>>

\* result_queue.get(True, 0.5) times out: Empty is caught and passed over
run_get_empty ==
    /\ run_pc = "get"
    /\ result_queue = <<>>
    /\ run_pc' = "check"
    /\ UNCHANGED <<senders, messages, producer_queue, result_queue, producer_pc,
                   produced, sender_pc, sender_msg, stats, running, run_msg,
                   monitor_pc, shown, applied, serviced, sample>>

\* run resumes with the message and hands stats.update(msg) to the executor;
\* the executor thread runs it, one statement at a time
run_update_count ==
    /\ run_pc = "update_count"
    /\ LoopResumesRun
    /\ stats' = update_count(stats, run_msg)
    /\ run_pc' = "update_scale"
    /\ UNCHANGED <<senders, messages, producer_queue, result_queue, producer_pc,
                   produced, sender_pc, sender_msg, running, run_msg, monitor_pc,
                   shown, applied, serviced, sample>>

run_update_scale ==
    /\ run_pc = "update_scale"
    /\ stats' = update_scale(stats)
    /\ run_pc' = "update_add"
    /\ UNCHANGED <<senders, messages, producer_queue, result_queue, producer_pc,
                   produced, sender_pc, sender_msg, running, run_msg, monitor_pc,
                   shown, applied, serviced, sample>>

run_update_add ==
    /\ run_pc = "update_add"
    /\ stats' = update_add(stats, run_msg)
    /\ applied' = Append(applied, run_msg)
    /\ run_msg' = NoMessage
    /\ run_pc' = "check"
    /\ UNCHANGED <<senders, messages, producer_queue, result_queue, producer_pc,
                   produced, sender_pc, sender_msg, running, monitor_pc, shown,
                   serviced, sample>>

\* run resumes: the completion check, then the next get or the end of the loop
run_check ==
    /\ run_pc = "check"
    /\ LoopResumesRun
    /\ IF complete(stats, messages)
       THEN running' = FALSE /\ run_pc' = "kill"
       ELSE running' = running /\ run_pc' = "get"
    /\ UNCHANGED <<senders, messages, producer_queue, result_queue, producer_pc,
                   produced, sender_pc, sender_msg, stats, run_msg, monitor_pc,
                   shown, applied, serviced, sample>>

\* mutant: the senders are killed and the producer is left alone
kill_senders_only ==
    /\ run_pc = "kill"
    /\ sender_pc' = [i \in Senders |-> "killed"]
    /\ run_pc' = "await"
    /\ UNCHANGED <<senders, messages, producer_queue, result_queue, producer_pc,
                   produced, sender_msg, stats, running, run_msg, monitor_pc,
                   shown, applied, serviced, sample>>

\* Engine.kill: kill() on every sender process and on the producer process
\* (a process that has already ended stays ended)
kill ==
    /\ run_pc = "kill"
    /\ sender_pc' = [i \in Senders |->
                        IF sender_pc[i] = "crashed" THEN "crashed" ELSE "killed"]
    /\ producer_pc' = IF producer_pc \in {"done", "crashed"}
                         THEN producer_pc ELSE "killed"
    /\ run_pc' = "await"
    /\ UNCHANGED <<senders, messages, producer_queue, result_queue, produced,
                   sender_msg, stats, running, run_msg, monitor_pc, shown,
                   applied, serviced, sample>>

\* await progress_monitor_task: returns when the task is done, re-raises its exception
run_await ==
    /\ run_pc = "await"
    /\ monitor_pc \in {"done", "raised"}
    /\ run_pc' = IF monitor_pc = "done" THEN "done" ELSE "raised"
    /\ UNCHANGED <<senders, messages, producer_queue, result_queue, producer_pc,
                   produced, sender_pc, sender_msg, stats, running, run_msg,
                   monitor_pc, shown, applied, serviced, sample>>

\* ------------------------------------------------- Simulator._progress_monitor
\* the event loop runs the monitor only while run is suspended at an await
LoopRunsMonitor == run_pc \in {"get", "update_count", "update_scale", "update_add",
                               "check", "await"}

\* one pass of the monitor from a render to its next suspension or its end:
\* render and echo; then sleep if still running, else the final render.
\* render reads the fields of stats as the executor thread has left them at
\* that moment, between any two statements of update
monitor_pass ==
    LET first == render(stats)
    IN  IF first.raised
        THEN monitor_pc' = "raised" /\ shown' = shown
        ELSE /\ shown' = first
             /\ monitor_pc' = IF running THEN "sleep" ELSE "done"

\* the task starts: the first render, then the loop up to asyncio.sleep
monitor_start ==
    /\ monitor_pc = "created"
    /\ LoopRunsMonitor
    /\ monitor_pass
    /\ UNCHANGED <<senders, messages, producer_queue, result_queue, producer_pc,
                   produced, sender_pc, sender_msg, stats, running, run_pc,
                   run_msg, applied, serviced, sample>>

\* mutant: render stores the average it has cut for display
monitor_wake_writes ==
    /\ monitor_pc = "sleep"
    /\ LoopRunsMonitor
    /\ monitor_pass
    /\ stats' = [stats EXCEPT !.average_seconds_per_message = Float(0)]
    /\ UNCHANGED <<senders, messages, producer_queue, result_queue, producer_pc,
                   produced, sender_pc, sender_msg, running, run_pc, run_msg,
                   applied, serviced, sample>>

\* asyncio.sleep(refresh) is over: the loop test, then a render and the next
\* sleep, or the final render
monitor_wake ==
    /\ monitor_pc = "sleep"
    /\ LoopRunsMonitor
    /\ monitor_pass
    /\ UNCHANGED <<senders, messages, producer_queue, result_queue, producer_pc,
                   produced, sender_pc, sender_msg, stats, running, run_pc,
                   run_msg, applied, serviced, sample>>

\* ------------------------------------------------------ SMSProducer.fill_queue
fill_queue_put ==
    /\ producer_pc = "fill"
    /\ produced < Len(generator(messages))
    /\ CanPut(producer_queue, max_q_size)
    /\ producer_queue' = Append(producer_queue, generator(messages)[produced + 1])
    /\ produced' = produced + 1
    /\ UNCHANGED <<senders, messages, result_queue, producer_pc, sender_pc,
                   sender_msg, stats, running, run_pc, run_msg, monitor_pc,
                   shown, applied, serviced, sample>>

\* the generator is exhausted: fill_queue returns and the process ends
fill_queue_return ==
    /\ producer_pc = "fill"
    /\ produced = Len(generator(messages))
    /\ producer_pc' = "done"
    /\ UNCHANGED <<senders, messages, producer_queue, result_queue, produced,
                   sender_pc, sender_msg, stats, running, run_pc, run_msg,
                   monitor_pc, shown, applied, serviced, sample>>

\* ---------------------------------------------------- SMSSender.service_queue
\* mutant: the message is read but left on the queue
service_queue_peek(i) ==
    /\ sender_pc[i] = "get"
    /\ producer_queue # <<>>
    /\ sender_msg' = [sender_msg EXCEPT ![i] = Head(producer_queue)]
    /\ sender_pc' = [sender_pc EXCEPT ![i] = "process"]
    /\ UNCHANGED <<senders, messages, producer_queue, result_queue, producer_pc,
                   produced, stats, running, run_pc, run_msg, monitor_pc, shown,
                   applied, serviced, sample>>

service_queue_get(i) ==
    /\ sender_pc[i] = "get"
    /\ producer_queue # <<>>
    /\ sender_msg' = [sender_msg EXCEPT ![i] = Head(producer_queue)]
    /\ producer_queue' = Tail(producer_queue)
    /\ sender_pc' = [sender_pc EXCEPT ![i] = "process"]
    /\ UNCHANGED <<senders, messages, result_queue, producer_pc, produced, stats,
                   running, run_pc, run_msg, monitor_pc, shown, applied,
                   serviced, sample>>

service_queue_process(i) ==
    /\ sender_pc[i] = "process"
    /\ \E z \in NormalSamples, u \in UniformSamples :
          sender_msg' = [sender_msg EXCEPT
                            ![i] = process_message(senders[i], sender_msg[i], z, u)]
    /\ serviced' = [serviced EXCEPT ![sender_msg[i].phone] = @ + 1]
    /\ sender_pc' = [sender_pc EXCEPT ![i] = "put"]
    /\ UNCHANGED <<senders, messages, producer_queue, result_queue, producer_pc,
                   produced, stats, running, run_pc, run_msg, monitor_pc, shown,
                   applied, sample>>

service_queue_put(i) ==
    /\ sender_pc[i] = "put"
    /\ CanPut(result_queue, max_q_size)
    /\ result_queue' = Append(result_queue, sender_msg[i])
    /\ sender_msg' = [sender_msg EXCEPT ![i] = NoMessage]
    /\ sender_pc' = [sender_pc EXCEPT ![i] = "get"]
    /\ UNCHANGED <<senders, messages, producer_queue, producer_pc, produced, stats,
                   running, run_pc, run_msg, monitor_pc, shown, applied,
                   serviced, sample>>

\* ------------------------------------------------------------ specification
Next ==
    \/ run_start
    \/ run_get
    \/ run_get_empty
    \/ run_update_count
    \/ run_update_scale
    \/ run_update_add
    \/ run_check
    \/ kill
    \/ run_await
    \/ monitor_start
    \/ monitor_wake
    \/ fill_queue_put
    \/ fill_queue_return
    \/ \E i \in Senders : service_queue_get(i)
    \/ \E i \in Senders : service_queue_process(i)
    \/ \E i \in Senders : service_queue_put(i)

Spec == Init /\ [][Next]_vars

\* the steps of each sequential unit: Simulator.run, the executor thread with
\* the call run has handed to it, the progress monitor task, the producer
\* process, a sender process. A statement of update is always possible where
\* the thread stands, and only it moves the thread on: the thread's steps are
\* named by its position
run_step ==
    \/ run_start \/ run_get \/ run_get_empty \/ run_check \/ kill \/ run_await

executor_step ==
    /\ run_pc \in {"update_count", "update_scale", "update_add"}
    /\ run_pc' \in {"update_scale", "update_add", "check"}

monitor_step == monitor_start \/ monitor_wake

producer_step == fill_queue_put \/ fill_queue_return

sender_step(i) ==
    /\ i \in Senders
    /\ (service_queue_get(i) \/ service_queue_process(i) \/ service_queue_put(i))

\* Scheduling: the operating system lets every live process run (the producer,
\* each sender), the event loop resumes every coroutine that is ready (run, the
\* progress monitor) and the executor runs the calls handed to it: a unit whose
\* next step stays possible takes it in the end
Fairness ==
    /\ WF_vars(run_step)
    /\ WF_run_pc(executor_step)
    /\ WF_vars(monitor_step)
    /\ WF_vars(producer_step)
    /\ \A i \in 1 .. MaxSenders : WF_vars(sender_step(i))

SpecFair == Spec /\ Fairness

\* ------------------------------------ SimulationStatistics on its own
\* update calls applied one after another to SimulationStatistics.new, as
\* tests/test_simulator.py does (no other thread)
MaxUpdates == 3
ServiceTimes == {0, 1, 2, 4, 5}

InitStats == from_config /\ senders = <<>> /\ sample = NoSample

stats_update ==
    /\ Len(applied) < MaxUpdates
    /\ \E delivered \in BOOLEAN, t \in ServiceTimes :
          LET msg == ServicedMessage(delivered, t, SMSMessage(Len(applied) + 1))
          IN  /\ stats' = update(stats, msg)
              /\ applied' = Append(applied, msg)
    /\ UNCHANGED <<senders, messages, producer_queue, result_queue, producer_pc,
                   produced, sender_pc, sender_msg, running, run_pc, run_msg,
                   monitor_pc, shown, serviced, sample>>

NextStats == stats_update

SpecStats == InitStats /\ [][NextStats]_vars

\* ------------------------------------------- SMSSender._service_time on its own
MaxMean == 4
MaxSdev == 3
MaxNormal == 4

InitSender ==
    /\ from_config /\ senders = <<>> /\ messages = 0
    /\ sample \in [cfg : [failure_rate : {0}, mean_send_time : 0 .. MaxMean,
                          sdev_send_time : 0 .. MaxSdev],
                   z : -MaxNormal .. MaxNormal, returned : {FALSE}, result : {0}]

sender_service_time ==
    /\ ~sample.returned
    /\ sample' = [sample EXCEPT !.returned = TRUE,
                                !.result = service_time(sample.cfg, sample.z)]
    /\ UNCHANGED <<senders, messages, producer_queue, result_queue, producer_pc,
                   produced, sender_pc, sender_msg, stats, running, run_pc,
                   run_msg, monitor_pc, shown, applied, serviced>>

NextSender == sender_service_time

SpecSender == InitSender /\ [][NextSender]_vars

\* ------------------------------------- the arrivals of one run, in any order
\* the ServicedMessages of a run of MaxMessages messages reach update one by
\* one, delivered or failed, with service times that differ
ArrivalTimes == {1, 4, 5}

InitOrder == InitStats /\ messages = MaxMessages

stats_arrive ==
    /\ Len(applied) < messages
    /\ \E delivered \in BOOLEAN, t \in ArrivalTimes :
          LET msg == ServicedMessage(delivered, t, SMSMessage(Len(applied) + 1))
          IN  /\ stats' = update(stats, msg)
              /\ applied' = Append(applied, msg)
    /\ UNCHANGED <<senders, messages, producer_queue, result_queue, producer_pc,
                   produced, sender_pc, sender_msg, running, run_pc, run_msg,
                   monitor_pc, shown, serviced, sample>>

NextOrder == stats_arrive

SpecOrder == InitOrder /\ [][NextOrder]_vars

\* ------------------------------------- SimulationStatistics.render on its own
\* one call of render on statistics of a run of up to MaxBarTotal messages,
\* of which some are sent and some have failed
MaxBarTotal == 6

InitRender ==
    /\ from_config /\ senders = <<>> /\ messages = 0
    /\ sample \in [stats : {[new(total) EXCEPT !.messages_sent = sent,
                                                !.messages_failed = failed] :
                                total \in 0 .. MaxBarTotal,
                                sent \in 0 .. MaxBarTotal,
                                failed \in 0 .. MaxBarTotal},
                   returned : {FALSE}, raised : {FALSE}, bar : {<<>>}]
    /\ messages_processed(sample.stats) <= sample.stats.total_messages

stats_render ==
    /\ ~sample.returned
    /\ sample' = [sample EXCEPT
                     !.returned = TRUE,
                     !.raised = render(sample.stats).raised,
                     !.bar = IF render(sample.stats).raised THEN <<>>
                             ELSE bar(sample.stats)]
    /\ UNCHANGED <<senders, messages, producer_queue, result_queue, producer_pc,
                   produced, sender_pc, sender_msg, stats, running, run_pc,
                   run_msg, monitor_pc, shown, applied, serviced>>

NextRender == stats_render

SpecRender == InitRender /\ [][NextRender]_vars

\* ------------------------------------------- a run that fills both queues
\* one sender, so queues of capacity 2, and MaxBacklog messages: enough to
\* fill the inbound queue, the outbound queue and the sender's hands at once
MaxBacklog == 6

InitBacklog ==
    /\ senders \in [1 .. 1 -> SenderConfigs]
    /\ messages = MaxBacklog
    /\ producer_queue = <<>>
    /\ result_queue = <<>>
    /\ producer_pc = "new"
    /\ produced = 0
    /\ sender_pc = [i \in DOMAIN senders |-> "new"]
    /\ sender_msg = [i \in DOMAIN senders |-> NoMessage]
    /\ stats = new(messages)
    /\ running = FALSE
    /\ run_pc = "new"
    /\ run_msg = NoMessage
    /\ monitor_pc = "new"
    /\ shown = NothingShown
    /\ applied = <<>>
    /\ serviced = [m \in 1 .. messages |-> 0]
    /\ sample = NoSample

SpecBacklog == InitBacklog /\ [][Next]_vars

\* --------------------------------------------------- a unit process crashes
\* The producer process or a sender process stops for good, at any statement,
\* with nothing to restart it: what it holds is lost with it. The crashes
\* looked at are those before sent + failed has reached total_messages.
MaxCrashSenders == 2
MaxCrashMessages == 2

producer_crash ==
    /\ producer_pc = "fill"
    /\ messages_processed(stats) < messages
    /\ producer_pc' = "crashed"
    /\ UNCHANGED <<senders, messages, producer_queue, result_queue, produced,
                   sender_pc, sender_msg, stats, running, run_pc, run_msg,
                   monitor_pc, shown, applied, serviced, sample>>

sender_crash(i) ==
    /\ sender_pc[i] \in {"get", "process", "put"}
    /\ messages_processed(stats) < messages
    /\ sender_pc' = [sender_pc EXCEPT ![i] = "crashed"]
    /\ UNCHANGED <<senders, messages, producer_queue, result_queue, producer_pc,
                   produced, sender_msg, stats, running, run_pc, run_msg,
                   monitor_pc, shown, applied, serviced, sample>>

InitCrash ==
    /\ Init
    /\ Len(senders) <= MaxCrashSenders
    /\ messages <= MaxCrashMessages

NextCrash ==
    \/ Next
    \/ producer_crash
    \/ \E i \in Senders : sender_crash(i)

SpecCrash == InitCrash /\ [][NextCrash]_vars

\* ------------------------------------------ SMSMessage.random_message, generator
\* string.ascii_letters, string.digits
ascii_letters ==
    << "a", "b", "c", "d", "e", "f", "g", "h", "i", "j", "k", "l", "m",
       "n", "o", "p", "q", "r", "s", "t", "u", "v", "w", "x", "y", "z",
       "A", "B", "C", "D", "E", "F", "G", "H", "I", "J", "K", "L", "M",
       "N", "O", "P", "Q", "R", "S", "T", "U", "V", "W", "X", "Y", "Z" >>
digits == << "0", "1", "2", "3", "4", "5", "6", "7", "8", "9" >>

\* _CHARSET = string.ascii_letters + string.digits + " "
CHARSET == ascii_letters \o digits \o << " " >>

\* random.choices(population, k): k draws with replacement, each the element
\* at the index the generator gives; the stream of a generator is a function
\* of its seed, here the i-th index is seed * i modulo the population's size
choices(population, k, seed) ==
    [i \in 1 .. k |-> population[((seed * i) % Len(population)) + 1]]

\* random.randint(a, b): a + randrange(b - a + 1), from the draw r >= 0
randint(a, b, r) == a + (r % (b - a + 1))

\* mutant: the body may be as short as no character at all
random_message_any_length(phone_seed, r, body_seed) ==
    [phone_number |-> choices(digits, 10, phone_seed),
     message_body |-> choices(CHARSET, randint(0, 100, r), body_seed)]

random_message(phone_seed, r, body_seed) ==
    [phone_number |-> choices(digits, 10, phone_seed),
     message_body |-> choices(CHARSET, randint(5, 100, r), body_seed)]

\* the draws of the random generator one message is made from
MaxGenerated == 2
PhoneSeeds == {0, 3, 9}
LengthDraws == {0, 1, 95, 96}
BodySeeds == {0, 1, 62}

\* SMSMessage.generator(messages), iterated to its end
InitMessage ==
    /\ from_config /\ senders = <<>> /\ messages = 0
    /\ sample \in [messages : 0 .. MaxGenerated, yielded : {<<>>}, exhausted : {FALSE}]

generator_next ==
    /\ Len(sample.yielded) < sample.messages
    /\ \E phone_seed \in PhoneSeeds, r \in LengthDraws, body_seed \in BodySeeds :
          sample' = [sample EXCEPT
                        !.yielded = Append(@, random_message(phone_seed, r, body_seed))]
    /\ UNCHANGED <<senders, messages, producer_queue, result_queue, producer_pc,
                   produced, sender_pc, sender_msg, stats, running, run_pc,
                   run_msg, monitor_pc, shown, applied, serviced>>

generator_stop ==
    /\ Len(sample.yielded) >= sample.messages
    /\ ~sample.exhausted
    /\ sample' = [sample EXCEPT !.exhausted = TRUE]
    /\ UNCHANGED <<senders, messages, producer_queue, result_queue, producer_pc,
                   produced, sender_pc, sender_msg, stats, running, run_pc,
                   run_msg, monitor_pc, shown, applied, serviced>>

NextMessage == generator_next \/ generator_stop

SpecMessage == InitMessage /\ [][NextMessage]_vars

\* ------------------------------------------ SMSSender.process_message on its own
\* one call of process_message on the message of tests/test_sender.py, for a
\* sender config, a normal sample z and a uniform draw u (percent, 0 <= u < 100)
FailureRates == {0, 50, 100}

InitProcess ==
    /\ from_config /\ senders = <<>> /\ messages = 0
    /\ sample \in [cfg : [failure_rate : FailureRates, mean_send_time : 0 .. MaxMean,
                          sdev_send_time : 0 .. MaxSdev],
                   z : -MaxNormal .. MaxNormal, u : UniformSamples,
                   returned : {FALSE}, result : {NoMessage}]

sender_process_message ==
    /\ ~sample.returned
    /\ sample' = [sample EXCEPT
                     !.returned = TRUE,
                     !.result = process_message(sample.cfg, SMSMessage(1),
                                                sample.z, sample.u)]
    /\ UNCHANGED <<senders, messages, producer_queue, result_queue, producer_pc,
                   produced, sender_pc, sender_msg, stats, running, run_pc,
                   run_msg, monitor_pc, shown, applied, serviced>>

NextProcess == sender_process_message

SpecProcess == InitProcess /\ [][NextProcess]_vars

\* ===================================================================== claims
LoopExited == run_pc \in {"kill", "await", "done", "raised"}

\* the statistics after the first k updates of a sequence of ServicedMessages
RECURSIVE Replay(_, _, _)
Replay(total, msgs, k) ==
    IF k = 0 THEN new(total) ELSE update(Replay(total, msgs, k - 1), msgs[k])

RECURSIVE SumTimes(_, _)
SumTimes(msgs, k) ==
    IF k = 0 THEN 0 ELSE SumTimes(msgs, k - 1) + msgs[k].service_time_seconds

RECURSIVE MaxTime(_, _)
MaxTime(msgs, k) ==
    IF k = 0 THEN 0 ELSE Max(MaxTime(msgs, k - 1), msgs[k].service_time_seconds)

\* how many elements of a sequence of ServicedMessages carry message m
RECURSIVE Carrying(_, _, _)
Carrying(msgs, k, m) ==
    IF k = 0 THEN 0
    ELSE Carrying(msgs, k - 1, m) + (IF msgs[k].message.phone = m THEN 1 ELSE 0)

\* C1: once the aggregation loop of Simulator.run has exited (and so when run
\* returns), messages_sent + messages_failed equals the configured number of
\* messages exactly.
C1_CompletedCountsEveryMessage ==
    LoopExited =>
        /\ stats.messages_sent + stats.messages_failed = messages
        /\ stats.total_messages = messages

C1_Witness ==
    /\ run_pc = "done"
    /\ stats.messages_sent >= 1
    /\ stats.messages_failed >= 1

\* C2: messages_sent + messages_failed never exceeds total_messages; once it
\* equals the total it never changes again, and the completion check that
\* finds it equal always ends the loop (no further get or update follows).
C2_CountNeverExceedsTotal ==
    /\ [](messages_processed(stats) <= stats.total_messages)
    /\ [][messages_processed(stats) = stats.total_messages =>
            /\ stats'.messages_sent = stats.messages_sent
            /\ stats'.messages_failed = stats.messages_failed
            /\ (run_pc = "check" /\ run_pc' # "check" => run_pc' = "kill" /\ ~running')
            /\ (LoopExited => LoopExited')]_vars

C2_Witness ==
    /\ messages_processed(stats) = stats.total_messages
    /\ stats.total_messages >= 2
    /\ LoopExited

\* C3: every snapshot the progress monitor renders is a consistent one: it
\* shows the statistics as they were after some whole number of updates, never
\* the fields of an update that is partway through.
C3_MonitorSeesConsistentSnapshot ==
    \/ shown = NothingShown
    \/ \E k \in 0 .. Len(applied) : shown = render(Replay(messages, applied, k))

\* C4: a run with totalMessages = 0 completes normally: neither the progress
\* monitor nor Simulator.run ends with an exception, and nothing is consumed.
C4_ZeroMessagesCompletes ==
    messages = 0 =>
        /\ monitor_pc # "raised"
        /\ run_pc # "raised"
        /\ messages_processed(stats) = 0

IsServiced(msg) == "delivered" \in DOMAIN msg

\* the ServicedMessages the senders hold, not yet put
HeldServiced == {i \in Senders : IsServiced(sender_msg[i])}

\* the ServicedMessages handed to update so far (the last one may be in progress)
Counted ==
    IF run_pc \in {"update_scale", "update_add"} THEN Append(applied, run_msg)
    ELSE applied

\* C5: every message is serviced at most once, by one sender; its
\* ServicedMessage carries that message, is in exactly one place (a sender's
\* hands, the outbound queue, the aggregator), is on the outbound queue at
\* most once and is counted by update at most once; every ServicedMessage
\* passed to update raises the count by one, and when run returns every
\* message has been counted exactly once.
C5_EachMessageServicedAndCountedOnce ==
    /\ \A m \in 1 .. messages :
          /\ serviced[m] <= 1
          /\ Carrying(result_queue, Len(result_queue), m) <= 1
          /\ Carrying(Counted, Len(Counted), m) <= 1
          /\ Cardinality({i \in HeldServiced : sender_msg[i].message.phone = m})
                + Carrying(result_queue, Len(result_queue), m)
                + (IF run_pc = "update_count" /\ run_msg.message.phone = m
                   THEN 1 ELSE 0)
                + Carrying(Counted, Len(Counted), m) = serviced[m]
          /\ (run_pc = "done" => Carrying(applied, Len(applied), m) = 1)
    /\ messages_processed(stats) = Len(Counted)

C5_Witness ==
    /\ run_pc = "done"
    /\ Len(senders) = 2
    /\ senders[1] # senders[2]
    /\ stats.messages_sent >= 1
    /\ stats.messages_failed >= 1

\* how many places of the pipeline hold message m
Places(m) ==
    Cardinality({k \in 1 .. Len(producer_queue) : producer_queue[k].phone = m})
    + Cardinality({i \in Senders \ HeldServiced : sender_msg[i].phone = m})
    + Cardinality({i \in HeldServiced : sender_msg[i].message.phone = m})
    + Carrying(result_queue, Len(result_queue), m)
    + (IF IsServiced(run_msg) /\ run_msg.message.phone = m THEN 1 ELSE 0)
    + Carrying(applied, Len(applied), m)

\* C6: the producer never puts more than `messages` messages, the messages
\* put so far are the first `produced` ones of the generator, each put once,
\* and when fill_queue returns it has put exactly `messages` of them.
C6_ProducerPutsExactlyTotal ==
    /\ produced <= messages
    /\ \A m \in 1 .. messages + 1 : Places(m) = (IF m <= produced THEN 1 ELSE 0)
    /\ (producer_pc = "done" => produced = messages)

C6_Witness ==
    /\ producer_pc = "done"
    /\ produced = messages
    /\ messages >= 3
    /\ Len(senders) = 1

\* C7: neither queue ever holds more than 2 * (number of senders) items,
\* also with no sender at all.
C7_QueuesNeverExceedTwiceSenders ==
    /\ Len(producer_queue) <= 2 * Len(senders)
    /\ Len(result_queue) <= 2 * Len(senders)

\* C8 as stated: after any sequence of updates from new, the average equals
\* the arithmetic mean of the service times applied so far, exactly.
C8_AverageIsExactMean ==
    Len(applied) >= 1 =>
        stats.average_seconds_per_message[1] * Len(applied)
            = SumTimes(applied, Len(applied)) * stats.average_seconds_per_message[2]

\* C8, amended: after n >= 1 updates from new (failed messages included) the
\* average is the arithmetic mean of the n service times up to floating-point
\* rounding: it differs from the mean by at most 4 * n * epsilon times the
\* largest service time, epsilon = 2^(1 - MantissaBits) being the spacing of
\* the floats at 1.
C8_AverageWithinRounding ==
    Len(applied) >= 1 =>
        LET n == Len(applied)
            avg == stats.average_seconds_per_message
        IN  Abs(avg[1] * n - SumTimes(applied, n) * avg[2]) * Pow2(MantissaBits - 1)
                <= 4 * n * MaxTime(applied, n) * n * avg[2]

C8_Witness ==
    /\ Len(applied) = 3
    /\ stats.messages_failed >= 1
    /\ stats.messages_sent >= 1
    /\ ~C8_AverageIsExactMean

\* C9: each update adds exactly 1 to messages_sent when the serviced message
\* is delivered and to messages_failed otherwise, and leaves the other
\* counter, total_messages and start as they were: messages_processed grows
\* by exactly 1.
C9_UpdateCountsOneMessage ==
    [][Len(applied') = Len(applied) + 1 =>
        LET msg == applied'[Len(applied')]
        IN  /\ stats'.messages_sent =
                  stats.messages_sent + (IF msg.delivered THEN 1 ELSE 0)
            /\ stats'.messages_failed =
                  stats.messages_failed + (IF msg.delivered THEN 0 ELSE 1)
            /\ stats'.total_messages = stats.total_messages
            /\ stats'.start = stats.start
            /\ messages_processed(stats') = messages_processed(stats) + 1]_vars

C9_Witness ==
    /\ Len(applied) = 2
    /\ stats.messages_sent = 1
    /\ stats.messages_failed = 1

\* C10: for every sender config with mean >= 0 and sdev >= 0 and every normal
\* sample, the service time lies in [max(0, mean - 3 sdev), mean + 3 sdev]
\* and is never negative.
C10_ServiceTimeWithinThreeSigma ==
    sample.returned =>
        /\ sample.result >= Max(0, sample.cfg.mean_send_time
                                     - 3 * sample.cfg.sdev_send_time)
        /\ sample.result <= sample.cfg.mean_send_time + 3 * sample.cfg.sdev_send_time
        /\ sample.result >= 0

C10_Witness ==
    /\ sample.returned
    /\ sample.cfg.mean_send_time - 3 * sample.cfg.sdev_send_time < 0
    /\ gauss(sample.cfg.mean_send_time, sample.cfg.sdev_send_time, sample.z) < 0
    /\ sample.result = 0

\* C11 as stated: every ServicedMessage made by process_message has a service
\* time strictly greater than 0, for every valid sender config.
C11_ServiceTimePositive ==
    sample.returned => sample.result.service_time_seconds > 0

\* C11, amended: every ServicedMessage made by process_message carries the
\* value of _service_time for its config and sample, which is greater than or
\* equal to 0, and strictly greater than 0 whenever mean - 3 sdev > 0.
C11_ServiceTimeNotNegative ==
    sample.returned =>
        /\ sample.result.service_time_seconds >= 0
        /\ sample.result.service_time_seconds
              >= sample.cfg.mean_send_time - 3 * sample.cfg.sdev_send_time
        /\ sample.result.message = SMSMessage(1)

C11_Witness ==
    /\ sample.returned
    /\ sample.cfg.mean_send_time = 0
    /\ sample.cfg.sdev_send_time >= 1
    /\ sample.result.service_time_seconds = 0

\* C12: with failure_rate = 0 every ServicedMessage is delivered and with
\* failure_rate = 1 none is, whatever the uniform draw in [0, 1).
C12_FailureRateExtremes ==
    sample.returned =>
        /\ (sample.cfg.failure_rate = 0 => sample.result.delivered)
        /\ (sample.cfg.failure_rate = 100 => ~sample.result.delivered)

C12_Witness ==
    /\ sample.returned
    /\ sample.cfg.failure_rate = 100
    /\ sample.u = 99
    /\ ~sample.result.delivered

\* C13: the run goes NotStarted -> Running -> Completed and nowhere else:
\* running is False before run starts, True inside the loop and False after
\* it; it becomes True only at the start of run and False only at a
\* completion check where sent + failed = total_messages, and never True again.
C13_Lifecycle ==
    /\ [](running <=> run_pc \in {"get", "update_count", "update_scale",
                                  "update_add", "check"})
    /\ [][/\ running' # running =>
                \/ ~running /\ run_pc = "new" /\ run_pc' = "get"
                \/ /\ running /\ run_pc = "check" /\ run_pc' = "kill"
                   /\ stats.messages_sent + stats.messages_failed = messages
          /\ (run_pc # "new" => run_pc' # "new")
          /\ (LoopExited => LoopExited' /\ ~running')]_vars

C13_Witness ==
    /\ run_pc = "done"
    /\ ~running
    /\ messages >= 2
    /\ stats.messages_sent + stats.messages_failed = messages

\* C14: Engine.kill reaches the producer and every sender, and only after the
\* aggregator has seen sent + failed = total_messages: a killed unit is found
\* only when running is False and the counts are complete, and from the
\* return of Engine.kill on (so when run returns) every sender process has
\* been killed and the producer process has been killed unless it had ended.
C14_KillAfterCompletion ==
    /\ (producer_pc = "killed" \/ \E i \in Senders : sender_pc[i] = "killed") =>
           /\ ~running
           /\ LoopExited
           /\ stats.messages_sent + stats.messages_failed = messages
    /\ run_pc \in {"await", "done", "raised"} =>
           /\ \A i \in Senders : sender_pc[i] = "killed"
           /\ producer_pc \in {"killed", "done"}

\* run has returned; a producer still running and senders at work were killed
C14_Witness ==
    /\ run_pc = "done"
    /\ producer_pc = "killed"
    /\ Len(senders) = 2
    /\ \A i \in Senders : sender_pc[i] = "killed"

\* C15 as stated: once running is False the progress monitor makes exactly one
\* more render and stops, and that render shows sent + failed = total_messages:
\* the monitor leaves its sleep only to that render and its end, and when run
\* is over the monitor has ended that way and what it showed last is complete.
C15_FinalRenderShowsCompletion ==
    /\ [][~running /\ run_pc # "new" /\ monitor_pc' # monitor_pc =>
              /\ monitor_pc = "sleep" /\ monitor_pc' = "done"
              /\ shown' = render(stats)]_vars
    /\ [][monitor_pc = "done" => monitor_pc' = "done" /\ shown' = shown]_vars
    /\ [](run_pc \in {"done", "raised"} =>
              /\ monitor_pc = "done"
              /\ shown # NothingShown
              /\ shown.sent + shown.failed = messages)

\* C16: the statistics are written only by the aggregator's update: a step
\* that changes stats is a step of update and of nothing else, total_messages
\* and start never change, and every step of the progress monitor, of the
\* producer or of a sender leaves stats as it was.
C16_OnlyUpdateWritesStats ==
    [][/\ stats' # stats =>
             /\ run_pc \in {"update_count", "update_scale", "update_add"}
             /\ run_pc' # run_pc
             /\ stats'.total_messages = stats.total_messages
             /\ stats'.start = stats.start
       /\ (\/ monitor_pc' # monitor_pc \/ shown' # shown
           \/ producer_pc' # producer_pc \/ produced' # produced
           \/ producer_queue' # producer_queue
           \/ sender_pc' # sender_pc \/ sender_msg' # sender_msg
           \/ result_queue' # result_queue) => stats' = stats]_vars

\* the monitor has rendered statistics that already count a message and sleeps
C16_Witness ==
    /\ monitor_pc = "sleep"
    /\ shown.sent + shown.failed >= 1
    /\ Len(applied) >= 1
    /\ stats = Replay(messages, applied, Len(applied))

\* a unit has crashed and taken messages with it: the producer before its last
\* put, or a sender between its get and its put
CrashLosesMessage ==
    \/ producer_pc = "crashed" /\ produced < messages
    \/ \E i \in Senders : sender_pc[i] = "crashed" /\ sender_msg[i] # NoMessage

\* C17 as stated: once the producer or any sender has crashed before
\* completion, sent + failed never reaches total_messages and the run never
\* leaves its loop.
C17_AnyCrashStalls ==
    (producer_pc = "crashed" \/ \E i \in Senders : sender_pc[i] = "crashed") =>
        /\ messages_processed(stats) < messages
        /\ ~LoopExited

\* C17, amended: once the producer has crashed before its last put, or a
\* sender has crashed while it holds a message, sent + failed never reaches
\* total_messages and the run never leaves its loop.
C17_LosingCrashStalls ==
    CrashLosesMessage =>
        /\ messages_processed(stats) < messages
        /\ running
        /\ ~LoopExited

\* a crash has lost a message and everything else has been serviced and counted
C17_Witness ==
    /\ CrashLosesMessage
    /\ messages = 2
    /\ messages_processed(stats) = 1
    /\ run_pc = "get"
    /\ result_queue = <<>>
    /\ producer_queue = <<>>

\* C18: a pull that times out on the empty result queue is no error: the step
\* from the pull to the completion check that takes no message leaves stats,
\* both queues and running as they were and raises nothing, and the check that
\* follows, when the counts are not complete, goes back to the pull with
\* running still True.
C18_TimeoutIsNotAnError ==
    [][/\ run_pc = "get" /\ run_pc' # "get" /\ result_queue = <<>> =>
             /\ run_pc' = "check"
             /\ UNCHANGED <<stats, producer_queue, result_queue, running,
                            run_msg, applied>>
       /\ run_pc = "get" /\ run_pc' = "raised" => FALSE
       /\ (/\ run_pc = "check" /\ run_pc' # "check"
           /\ stats.messages_sent + stats.messages_failed # messages) =>
             /\ run_pc' = "get"
             /\ running /\ running'
             /\ UNCHANGED <<stats, producer_queue, result_queue>>]_vars

\* a pull has timed out before any message was counted (a message is already
\* on its way): run is at the completion check, still running, its statistics
\* untouched
C18_Witness ==
    /\ run_pc = "check"
    /\ applied = <<>>
    /\ messages >= 1
    /\ running
    /\ stats = new(messages)
    /\ produced >= 1

\* a sequence of ServicedMessages in another order of arrival
Permuted(msgs, p) == [i \in 1 .. Len(msgs) |-> msgs[p[i]]]

\* the average of update's two statements in exact arithmetic, as a fraction
RECURSIVE ExactAverage(_, _)
ExactAverage(msgs, k) ==
    IF k = 0 THEN <<0, 1>>
    ELSE LET a == ExactAverage(msgs, k - 1)
         IN  Frac(a[1] * (k - 1) + msgs[k].service_time_seconds * a[2], a[2] * k)

\* C19: the statistics do not depend on the order of arrival: update applied
\* from new to any permutation of the ServicedMessages applied so far gives
\* the same messages_sent, messages_failed, total_messages and start; the
\* same average in exact arithmetic; and, in the floats of the code, an
\* average that differs by rounding only (at most 8 * n * epsilon times the
\* largest service time).
C19_OrderIndependent ==
    LET n == Len(applied)
    IN  \A p \in Permutations(1 .. n) :
           LET other == Replay(messages, Permuted(applied, p), n)
               a == stats.average_seconds_per_message
               b == other.average_seconds_per_message
           IN  /\ other.messages_sent = stats.messages_sent
               /\ other.messages_failed = stats.messages_failed
               /\ other.total_messages = stats.total_messages
               /\ other.start = stats.start
               /\ ExactAverage(Permuted(applied, p), n) = ExactAverage(applied, n)
               /\ Abs(a[1] * b[2] - b[1] * a[2]) * Pow2(MantissaBits - 1)
                      <= 8 * n * MaxTime(applied, n) * a[2] * b[2]

\* three messages, delivered and failed, of different service times: another
\* order of arrival gives the same counts and, in floats, another average
C19_Witness ==
    /\ Len(applied) = 3
    /\ stats.messages_sent >= 1
    /\ stats.messages_failed >= 1
    /\ \E p \in Permutations(1 .. 3) :
          LET other == Replay(messages, Permuted(applied, p), 3)
          IN  /\ Permuted(applied, p) # applied
              /\ other.messages_sent = stats.messages_sent
              /\ other.average_seconds_per_message
                    # stats.average_seconds_per_message

\* C20 as stated: for statistics with total_messages > 0 and sent + failed <=
\* total_messages, the bar of render is bar_width characters wide, and its
\* delivered, failed and remaining segments have lengths that are not
\* negative and proportional (to the character) to sent, failed and
\* total_messages - sent - failed: a segment whose count is 0 has length 0.
C20_BarProportional ==
    (sample.returned /\ sample.stats.total_messages > 0) =>
        LET b == sample.bar
            s == sample.stats
            total == s.total_messages
            Proportional(len, count) ==
                /\ len >= 0
                /\ count = 0 => len = 0
                /\ Abs(len * total - bar_width * count) < total
        IN  /\ ~sample.raised
            /\ b.delivered + b.failed + b.space = bar_width
            /\ Proportional(b.delivered, s.messages_sent)
            /\ Proportional(b.failed, s.messages_failed)
            /\ Proportional(b.space, total - messages_processed(s))

\* the characters of a phone number and of a body
DigitChars == {"0", "1", "2", "3", "4", "5", "6", "7", "8", "9"}

LetterChars ==
    {"a", "b", "c", "d", "e", "f", "g", "h", "i", "j", "k", "l", "m",
     "n", "o", "p", "q", "r", "s", "t", "u", "v", "w", "x", "y", "z",
     "A", "B", "C", "D", "E", "F", "G", "H", "I", "J", "K", "L", "M",
     "N", "O", "P", "Q", "R", "S", "T", "U", "V", "W", "X", "Y", "Z"}

\* C21: every message made by random_message, and so every message the
\* generator yields, has a phone number of exactly 10 digits and a body of 5
\* to 100 characters, each a letter, a digit or a space; generator(n) yields
\* exactly n messages.
C21_GeneratedMessagesWellFormed ==
    /\ \A i \in 1 .. Len(sample.yielded) :
          LET msg == sample.yielded[i]
          IN  /\ Len(msg.phone_number) = 10
              /\ \A k \in 1 .. 10 : msg.phone_number[k] \in DigitChars
              /\ Len(msg.message_body) >= 5
              /\ Len(msg.message_body) <= 100
              /\ \A k \in 1 .. Len(msg.message_body) :
                    msg.message_body[k] \in LetterChars \cup DigitChars \cup {" "}
    /\ Len(sample.yielded) <= sample.messages
    /\ sample.exhausted => Len(sample.yielded) = sample.messages

\* the generator has yielded its two messages: one of the shortest body, one
\* of the longest, which ends in a space
C21_Witness ==
    /\ sample.exhausted
    /\ sample.messages = 2
    /\ Len(sample.yielded[1].message_body) = 5
    /\ Len(sample.yielded[2].message_body) = 100
    /\ sample.yielded[2].message_body[1] = " "
    /\ sample.yielded[2].phone_number[1] = "9"

\* C22 as stated: for every accepted config (any number of senders from 0,
\* messages >= 0), under fair scheduling and with no crash, Simulator.run
\* reaches completion and returns.
C22_RunReturns == <>(run_pc = "done")

\* C22, the part that fails on its own: with no sender and a message to
\* send, run does not even end (it neither returns nor raises).
C22_RunEnds == <>(run_pc \in {"done", "raised"})

\* a unit can move a message forward with its next queue operation: the
\* producer can put one, a sender can take, service or put one, the
\* aggregator can pull one, is applying the one it has pulled, or stands at
\* its completion check with one waiting on the outbound queue for its pull
MessageCanMove ==
    \/ ENABLED fill_queue_put
    \/ \E i \in Senders : \/ ENABLED service_queue_get(i)
                          \/ ENABLED service_queue_process(i)
                          \/ ENABLED service_queue_put(i)
    \/ ENABLED run_get
    \/ run_pc \in {"update_count", "update_scale", "update_add"}
    \/ run_pc = "check" /\ result_queue # <<>>

BothQueuesFull ==
    /\ Len(producer_queue) = max_q_size
    /\ Len(result_queue) = max_q_size

\* C23: with a sender and a message, the started pipeline never deadlocks
\* before completion: in every state some unit is not blocked and moves a
\* message forward, also when both queues are full (the units that wait on
\* the full or empty queues never wait for each other in a cycle).
C23_DeadlockFree ==
    (/\ Len(senders) >= 1 /\ messages >= 1 /\ run_pc # "new"
     /\ messages_processed(stats) < messages) => MessageCanMove

\* both queues are full, the producer waits to put, the sender waits to put,
\* and the aggregator's pull goes through
C23_Witness ==
    /\ BothQueuesFull
    /\ producer_pc = "fill" /\ produced < messages
    /\ \A i \in Senders : sender_pc[i] = "put"
    /\ run_pc = "get"
    /\ ENABLED run_get
    /\ ~ENABLED fill_queue_put
    /\ \A i \in Senders : ~ENABLED service_queue_put(i)

\* the messages a sender holds between its get and its put, and the
\* ServicedMessages the aggregator has pulled
HeldBySenders == Cardinality({i \in Senders : sender_msg[i] # NoMessage})

Pulled == Len(applied) + (IF run_msg # NoMessage THEN 1 ELSE 0)

\* C24: messages are conserved: before kill, the number of messages the
\* producer has put is the number on the inbound queue, plus those senders
\* hold between get and put, plus those on the outbound queue, plus those the
\* aggregator has pulled; and when no pulled message awaits the end of its
\* update, the number pulled is sent + failed.
C24_MessageConservation ==
    run_pc \in {"new", "get", "update_count", "update_scale", "update_add",
                "check", "kill"} =>
        /\ produced = Len(producer_queue) + HeldBySenders
                        + Len(result_queue) + Pulled
        /\ (run_msg = NoMessage =>
                Pulled = stats.messages_sent + stats.messages_failed)

\* messages in all four places at once
C24_Witness ==
    /\ Len(producer_queue) >= 1
    /\ HeldBySenders >= 1
    /\ Len(result_queue) >= 1
    /\ Pulled >= 2
    /\ run_msg = NoMessage
    /\ produced < messages
    /\ stats.messages_sent + stats.messages_failed = 2

\* C25: when the completion test of run has held and Engine.kill is about to
\* be called, nothing is in flight: the producer has put all its messages,
\* both queues are empty and every sender waits in get holding no message.
C25_NothingInFlightAtCompletion ==
    run_pc = "kill" =>
        /\ produced = messages
        /\ producer_queue = <<>>
        /\ result_queue = <<>>
        /\ \A i \in Senders : sender_pc[i] = "get" /\ sender_msg[i] = NoMessage
        /\ run_msg = NoMessage
        /\ Len(applied) = messages

\* completion observed after deliveries and failures, with two senders and
\* the producer process not yet returned from fill_queue
C25_Witness ==
    /\ run_pc = "kill"
    /\ Len(senders) = 2
    /\ messages = MaxMessages
    /\ producer_pc = "fill"
    /\ stats.messages_sent >= 1
    /\ stats.messages_failed >= 1

====
